---- MODULE Spec2Model ----
(***************************************************************************)
(* Reverse Auction Platform (app.py): the auctions, auction_items and bids *)
(* tables, the buyer's actions on them and the suppliers' bulk bid         *)
(* submission.  Every database statement of app.py runs on a connection of *)
(* its own (run_query / get_conn), so each statement is one atomic step    *)
(* and the steps of different browser sessions interleave.                 *)
(*                                                                         *)
(* Amounts (base_price, bid_amount, min_decrement) are floats in app.py;   *)
(* here they are integers of a smallest money unit.  NOW() is the integer  *)
(* clock now, in minutes.  One buyer owns all auctions (every buyer query  *)
(* filters on created_by).                                                 *)
(***************************************************************************)
EXTENDS Integers, Sequences, FiniteSets, TLC

MaxAuctions == 1
MaxItems == 2
MaxBids == 2
MaxPrice == 2
MaxTime == 2
MaxDuration == 1
NumSuppliers == 2
MaxStep == 4
MaxGap == 10

None == -1

Suppliers == 1..NumSuppliers
Prices == 0..MaxPrice
BasePrices == {MaxPrice}
Durations == 1..MaxDuration
MinDecs == {0, 2}
Statuses == {"scheduled", "live", "closed"}

VARIABLES
  auctions,       \* table auctions: row id -> status, start_time, end_time, min_decrement
  auction_items,  \* table auction_items: row id -> auction_id, base_price
  bids,           \* table bids, in commit order
  now,            \* NOW()
  pc,             \* per supplier session: position in the Place Bids script
  sel,            \* per supplier session: the auction chosen in the select box
  min_dec,        \* per supplier session: min_decrement fetched for sel
  shown,          \* per supplier session: item ids listed in the editor
  page_low,       \* per supplier session: the lowest_bid column of the editor
  low_map,        \* per supplier session: lowest bid per item read at submit
  last,           \* the submission completed by the step just taken (inputs, outcome),
                  \* NoSubmission after any other step
  rule            \* the last direct call of is_multiple_of: arguments and result

vars ==
  <<auctions, auction_items, bids, now, pc, sel, min_dec, shown, page_low, low_map, last, rule>>

AuctionIds == 1..Len(auctions)
ItemIds == 1..Len(auction_items)

ItemsOf(a) == {i \in ItemIds : auction_items[i].auction_id = a}

Min(S) == CHOOSE x \in S : \A y \in S : x <= y

RECURSIVE SortedSeq(_)
SortedSeq(S) ==
  IF S = {} THEN <<>>
  ELSE LET m == Min(S) IN <<m>> \o SortedSeq(S \ {m})

\* is_multiple_of without the test diff <= 0
is_multiple_of_noguard(step, diff) ==
  IF step = 0 THEN TRUE
  ELSE diff % step = 0

\* abs(round(ratio) - ratio) < tol: diff / step is an integer
is_multiple_of(step, diff) ==
  IF step = 0 THEN TRUE
  ELSE IF diff <= 0 THEN FALSE
  ELSE diff % step = 0

\* WHERE a.status='live' AND a.end_time>NOW()
LiveAuctions == {a \in AuctionIds : auctions[a].status = "live" /\ auctions[a].end_time > now}

\* LowestQuery with MAX where the query has MIN
LowestQuery_max(a) ==
  LET rows == {k \in 1..Len(bids) : bids[k].auction_id = a}
      ids == {bids[k].item_id : k \in rows}
  IN [i \in ids |->
        CHOOSE x \in {bids[k].bid_amount : k \in {r \in rows : bids[r].item_id = i}} :
          \A k \in {r \in rows : bids[r].item_id = i} : bids[k].bid_amount <= x]

\* SELECT item_id, MIN(bid_amount) FROM bids WHERE auction_id=a GROUP BY item_id
LowestQuery(a) ==
  LET rows == {k \in 1..Len(bids) : bids[k].auction_id = a}
      ids == {bids[k].item_id : k \in rows}
  IN [i \in ids |-> Min({bids[k].bid_amount : k \in {r \in rows : bids[r].item_id = i}})]

NoCall == [step |-> 0, diff |-> 0, result |-> FALSE, called |-> FALSE]

NoSubmission ==
  [bidder |-> 0, sel |-> 0, min_dec |-> 0, edits |-> <<>>, low_map |-> <<>>,
   errors |-> <<>>, to_submit |-> <<>>, inserted |-> <<>>]

Init ==
  /\ auctions = <<>>
  /\ auction_items = <<>>
  /\ bids = <<>>
  /\ now = 0
  /\ pc = [s \in Suppliers |-> "idle"]
  /\ sel = [s \in Suppliers |-> 0]
  /\ min_dec = [s \in Suppliers |-> 0]
  /\ shown = [s \in Suppliers |-> {}]
  /\ page_low = [s \in Suppliers |-> <<>>]
  /\ low_map = [s \in Suppliers |-> <<>>]
  /\ last = NoSubmission
  /\ rule = NoCall

session == <<pc, sel, min_dec, shown, page_low, low_map>>

(* ------------------------------ buyer ---------------------------------- *)

CreateAuction(duration, md) ==
  /\ Len(auctions) < MaxAuctions
  /\ auctions' = Append(auctions,
       [status |-> "scheduled", start_time |-> now, end_time |-> now + duration,
        min_decrement |-> md])
  /\ last' = NoSubmission
  /\ UNCHANGED <<auction_items, bids, now, session, rule>>

\* StartAuctionNow that also deletes the bids of the restarted auction
StartAuctionNow_clearbids(a, start_override) ==
  /\ a \in AuctionIds
  /\ auctions' = [auctions EXCEPT ![a] =
       [@ EXCEPT !.status = "live", !.start_time = now, !.end_time = now + start_override]]
  /\ bids' = SelectSeq(bids, LAMBDA b : b.auction_id # a)
  /\ last' = NoSubmission
  /\ UNCHANGED <<auction_items, now, session, rule>>

\* StartAuctionNow that leaves end_time as it was
StartAuctionNow_noend(a, start_override) ==
  /\ a \in AuctionIds
  /\ auctions' = [auctions EXCEPT ![a] = [@ EXCEPT !.status = "live", !.start_time = now]]
  /\ last' = NoSubmission
  /\ UNCHANGED <<auction_items, bids, now, session, rule>>

StartAuctionNow(a, start_override) ==
  /\ a \in AuctionIds
  /\ auctions' = [auctions EXCEPT ![a] =
       [@ EXCEPT !.status = "live", !.start_time = now, !.end_time = now + start_override]]
  /\ last' = NoSubmission
  /\ UNCHANGED <<auction_items, bids, now, session, rule>>

\* CloseAuction that also stamps end_time with NOW()
CloseAuction_stamp(a) ==
  /\ a \in AuctionIds
  /\ auctions' = [auctions EXCEPT ![a] = [@ EXCEPT !.status = "closed", !.end_time = now]]
  /\ last' = NoSubmission
  /\ UNCHANGED <<auction_items, bids, now, session, rule>>

CloseAuction(a) ==
  /\ a \in AuctionIds
  /\ auctions' = [auctions EXCEPT ![a].status = "closed"]
  /\ last' = NoSubmission
  /\ UNCHANGED <<auction_items, bids, now, session, rule>>

AddItem(a, base) ==
  /\ a \in AuctionIds
  /\ Len(auction_items) < MaxItems
  /\ auction_items' = Append(auction_items, [auction_id |-> a, base_price |-> base])
  /\ last' = NoSubmission
  /\ UNCHANGED <<auctions, bids, now, session, rule>>

Tick ==
  /\ now < MaxTime
  /\ now' = now + 1
  /\ last' = NoSubmission
  /\ UNCHANGED <<auctions, auction_items, bids, session, rule>>

(* ----------------------------- supplier -------------------------------- *)

\* A row of the bid editor: your_bid (None when the cell is empty) and select
Entries == [your_bid : {None} \cup Prices, select : BOOLEAN]

\* Lines 257-312: the script lists the live auctions, the supplier picks one,
\* its min_decrement and its items are fetched and the editor is drawn.
PlaceBidsRender(s, a) ==
  /\ pc[s] \in {"idle", "page"}
  /\ a \in LiveAuctions
  /\ ItemsOf(a) # {}
  /\ sel' = [sel EXCEPT ![s] = a]
  /\ min_dec' = [min_dec EXCEPT ![s] = auctions[a].min_decrement]
  /\ shown' = [shown EXCEPT ![s] = ItemsOf(a)]
  /\ page_low' = [page_low EXCEPT ![s] = LowestQuery(a)]
  /\ pc' = [pc EXCEPT ![s] = "page"]
  /\ last' = NoSubmission
  /\ UNCHANGED <<auctions, auction_items, bids, now, low_map, rule>>

\* SubmitReadLowest that takes the lowest bids from the rendered page
SubmitReadLowest_stale(s) ==
  /\ pc[s] = "page"
  /\ low_map' = [low_map EXCEPT ![s] = page_low[s]]
  /\ pc' = [pc EXCEPT ![s] = "validate"]
  /\ last' = NoSubmission
  /\ UNCHANGED <<auctions, auction_items, bids, now, sel, min_dec, shown, page_low, rule>>

\* Lines 359-367: Submit pressed, the current lowest bid per item is re-read.
SubmitReadLowest(s) ==
  /\ pc[s] = "page"
  /\ low_map' = [low_map EXCEPT ![s] = LowestQuery(sel[s])]
  /\ pc' = [pc EXCEPT ![s] = "validate"]
  /\ last' = NoSubmission
  /\ UNCHANGED <<auctions, auction_items, bids, now, sel, min_dec, shown, page_low, rule>>

\* low_map.get(iid, None)
CurrentLowest(lm, iid) == IF iid \in DOMAIN lm THEN lm[iid] ELSE None

\* Lines 380-395: the price an entry is compared with, the lowest bid read
\* for the item or, when there is none, the item's base_price
Reference(lm, iid) ==
  IF CurrentLowest(lm, iid) = None THEN auction_items[iid].base_price
  ELSE CurrentLowest(lm, iid)

\* EntryResult with > where the code has >=
EntryResult_strict(iid, info, lm, md) ==
  IF ~info.select THEN "skip"
  ELSE IF info.your_bid = None THEN "NoBidEntered"
  ELSE LET current_lowest == CurrentLowest(lm, iid) IN
       IF current_lowest = None
       THEN LET base_price == auction_items[iid].base_price IN
            IF info.your_bid > base_price THEN "NotLowerThanBase" ELSE "ok"
       ELSE IF info.your_bid > current_lowest THEN "NotLowerThanLowest"
            ELSE IF md > 0 /\ ~is_multiple_of(md, current_lowest - info.your_bid)
                 THEN "BadDecrement"
                 ELSE "ok"

\* EntryResult with the empty-cell test ahead of the select test
EntryResult_nobidfirst(iid, info, lm, md) ==
  IF info.your_bid = None THEN "NoBidEntered"
  ELSE IF ~info.select THEN "skip"
  ELSE LET current_lowest == CurrentLowest(lm, iid) IN
       IF current_lowest = None
       THEN LET base_price == auction_items[iid].base_price IN
            IF info.your_bid >= base_price THEN "NotLowerThanBase" ELSE "ok"
       ELSE IF info.your_bid >= current_lowest THEN "NotLowerThanLowest"
            ELSE IF md > 0 /\ ~is_multiple_of(md, current_lowest - info.your_bid)
                 THEN "BadDecrement"
                 ELSE "ok"

\* EntryResult with "not your_bid" where the code has "your_bid is None"
EntryResult_falsy(iid, info, lm, md) ==
  IF ~info.select THEN "skip"
  ELSE IF info.your_bid = None \/ info.your_bid = 0 THEN "NoBidEntered"
  ELSE LET current_lowest == CurrentLowest(lm, iid) IN
       IF current_lowest = None
       THEN LET base_price == auction_items[iid].base_price IN
            IF info.your_bid >= base_price THEN "NotLowerThanBase" ELSE "ok"
       ELSE IF info.your_bid >= current_lowest THEN "NotLowerThanLowest"
            ELSE IF md > 0 /\ ~is_multiple_of(md, current_lowest - info.your_bid)
                 THEN "BadDecrement"
                 ELSE "ok"

\* Lines 373-400, one pass of the loop: "skip" is the continue of an entry
\* that is not selected, "ok" reaches to_submit.append, anything else is the
\* error appended for the item.
EntryResult(iid, info, lm, md) ==
  IF ~info.select THEN "skip"
  ELSE IF info.your_bid = None THEN "NoBidEntered"
  ELSE LET current_lowest == CurrentLowest(lm, iid) IN
       IF current_lowest = None
       THEN LET base_price == auction_items[iid].base_price IN
            IF info.your_bid >= base_price THEN "NotLowerThanBase" ELSE "ok"
       ELSE IF info.your_bid >= current_lowest THEN "NotLowerThanLowest"
            ELSE IF md > 0 /\ ~is_multiple_of(md, current_lowest - info.your_bid)
                 THEN "BadDecrement"
                 ELSE "ok"

\* BidRow that files every entry under the first item instead of its own
BidRow_unkeyed(a, iid, bidder, amount) ==
  [auction_id |-> a, item_id |-> 1, bidder_id |-> bidder, bid_amount |-> amount]

\* BidRow with the item and the bidder in each other's place
BidRow_swapped(a, iid, bidder, amount) ==
  [auction_id |-> a, item_id |-> bidder, bidder_id |-> iid, bid_amount |-> amount]

\* (sel, iid, user["id"], your_bid)
BidRow(a, iid, bidder, amount) ==
  [auction_id |-> a, item_id |-> iid, bidder_id |-> bidder, bid_amount |-> amount]

RECURSIVE CollectErrors(_, _, _, _)
CollectErrors(ids, edits, lm, md) ==
  IF ids = <<>> THEN <<>>
  ELSE LET iid == Head(ids)
           r == EntryResult(iid, edits[iid], lm, md)
       IN (IF r \in {"skip", "ok"} THEN <<>> ELSE <<[item |-> iid, reason |-> r]>>)
          \o CollectErrors(Tail(ids), edits, lm, md)

RECURSIVE CollectToSubmit(_, _, _, _, _, _)
CollectToSubmit(ids, edits, lm, md, a, bidder) ==
  IF ids = <<>> THEN <<>>
  ELSE LET iid == Head(ids)
           r == EntryResult(iid, edits[iid], lm, md)
       IN (IF r = "ok" THEN <<BidRow(a, iid, bidder, edits[iid].your_bid)>> ELSE <<>>)
          \o CollectToSubmit(Tail(ids), edits, lm, md, a, bidder)

\* Inserted without the test on errors
Inserted_partial(errors, to_submit) == to_submit

\* Lines 402-418: the rows that executemany writes and commit makes visible
Inserted(errors, to_submit) == IF errors # <<>> THEN <<>> ELSE to_submit

\* Lines 369-418: the validation loop over the edits, then either the error
\* report or the insert of every queued row in one transaction.  With record
\* the step also notes its inputs and outcome in last.
SubmitValidateInsert(s, edits, record) ==
  /\ pc[s] = "validate"
  /\ edits \in [shown[s] -> Entries]
  /\ LET ids == SortedSeq(shown[s])
         errors == CollectErrors(ids, edits, low_map[s], min_dec[s])
         to_submit == CollectToSubmit(ids, edits, low_map[s], min_dec[s], sel[s], s)
         rows == Inserted(errors, to_submit)
     IN /\ Len(bids) + Len(rows) <= MaxBids
        /\ bids' = bids \o rows
        /\ last' = IF record
                   THEN [bidder |-> s, sel |-> sel[s], min_dec |-> min_dec[s],
                         edits |-> edits, low_map |-> low_map[s], errors |-> errors,
                         to_submit |-> to_submit, inserted |-> rows]
                   ELSE NoSubmission
  /\ pc' = [pc EXCEPT ![s] = "idle"]
  /\ sel' = [sel EXCEPT ![s] = 0]
  /\ min_dec' = [min_dec EXCEPT ![s] = 0]
  /\ shown' = [shown EXCEPT ![s] = {}]
  /\ page_low' = [page_low EXCEPT ![s] = <<>>]
  /\ low_map' = [low_map EXCEPT ![s] = <<>>]
  /\ UNCHANGED <<auctions, auction_items, now, rule>>

\* RolledBack that keeps the rows written before the exception
RolledBack_partial(store, rows, k) == store \o SubSeq(rows, 1, k)

\* Lines 416-417: conn.rollback() after executemany raised with k rows written
\* in the open transaction; the committed store is what it was
RolledBack(store, rows, k) == store

\* Lines 369-418 when the insert raises: the entries pass validation, the
\* database fails after k of the queued rows, the transaction is rolled back
\* and the error is shown.
SubmitInsertError(s, edits, k) ==
  /\ pc[s] = "validate"
  /\ edits \in [shown[s] -> Entries]
  /\ LET ids == SortedSeq(shown[s])
         errors == CollectErrors(ids, edits, low_map[s], min_dec[s])
         to_submit == CollectToSubmit(ids, edits, low_map[s], min_dec[s], sel[s], s)
     IN /\ errors = <<>>
        /\ k \in 0..(Len(to_submit) - 1)
        /\ Len(bids) + k <= MaxBids
        /\ bids' = RolledBack(bids, to_submit, k)
  /\ last' = NoSubmission
  /\ pc' = [pc EXCEPT ![s] = "idle"]
  /\ sel' = [sel EXCEPT ![s] = 0]
  /\ min_dec' = [min_dec EXCEPT ![s] = 0]
  /\ shown' = [shown EXCEPT ![s] = {}]
  /\ page_low' = [page_low EXCEPT ![s] = <<>>]
  /\ low_map' = [low_map EXCEPT ![s] = <<>>]
  /\ UNCHANGED <<auctions, auction_items, now, rule>>

BuyerNext ==
  \/ \E d \in Durations, md \in MinDecs : CreateAuction(d, md)
  \/ \E a \in AuctionIds, d \in Durations : StartAuctionNow(a, d)
  \/ \E a \in AuctionIds : CloseAuction(a)
  \/ \E a \in AuctionIds, base \in BasePrices : AddItem(a, base)

\* Every supplier session runs concurrently with the others and the buyer.
Next ==
  \/ BuyerNext
  \/ Tick
  \/ \E s \in Suppliers, a \in AuctionIds : PlaceBidsRender(s, a)
  \/ \E s \in Suppliers : SubmitReadLowest(s)
  \/ \E s \in Suppliers : \E edits \in [shown[s] -> Entries] : SubmitValidateInsert(s, edits, FALSE)
  \/ \E s \in Suppliers : \E edits \in [shown[s] -> Entries], k \in 0..(MaxItems - 1) :
       SubmitInsertError(s, edits, k)

Spec == Init /\ [][Next]_vars

\* One supplier session next to the buyer, each submission recorded in last.
NextOne ==
  \/ BuyerNext
  \/ Tick
  \/ \E a \in AuctionIds : PlaceBidsRender(1, a)
  \/ SubmitReadLowest(1)
  \/ \E edits \in [shown[1] -> Entries] : SubmitValidateInsert(1, edits, TRUE)
  \/ \E edits \in [shown[1] -> Entries], k \in 0..(MaxItems - 1) : SubmitInsertError(1, edits, k)

SpecOne == Init /\ [][NextOne]_vars

(* --------------------------- decrement rule ---------------------------- *)

Steps == 0..MaxStep
Gaps == (0 - MaxGap)..MaxGap

\* is_multiple_of(step, diff) called on its own
CallRule(step, diff) ==
  /\ rule' = [step |-> step, diff |-> diff, result |-> is_multiple_of(step, diff),
              called |-> TRUE]
  /\ UNCHANGED <<auctions, auction_items, bids, now, session, last>>

NextRule == \E step \in Steps, diff \in Gaps : CallRule(step, diff)

SpecRule == Init /\ [][NextRule]_vars

TypeOK ==
  /\ \A a \in AuctionIds : auctions[a].status \in Statuses
  /\ \A k \in 1..Len(bids) : bids[k].item_id \in ItemIds

(* ------------------------------ claims --------------------------------- *)

ItemsIn(items, a) == {i \in 1..Len(items) : items[i].auction_id = a}
SelectedIds(edits) == {i \in DOMAIN edits : edits[i].select}
HasError(iid) == \E k \in 1..Len(last.errors) : last.errors[k].item = iid
HasErrorFor(iid, reason) ==
  \E k \in 1..Len(last.errors) : last.errors[k] = [item |-> iid, reason |-> reason]
Queued(iid) == \E k \in 1..Len(last.to_submit) : last.to_submit[k].item_id = iid
InsertedFor(iid) == \E k \in 1..Len(last.inserted) : last.inserted[k].item_id = iid

\* C1: for every item the bids stored for it, in commit order, have strictly
\* decreasing amounts, under every interleaving of the suppliers' submissions.
C1_StrictlyDecreasing ==
  \A j \in 1..Len(bids), k \in 1..Len(bids) :
    (j < k /\ bids[j].item_id = bids[k].item_id) => bids[k].bid_amount < bids[j].bid_amount

\* C2: a bid is inserted only while, at the moment of the insert, its auction
\* has status live and the current time is at most its end_time.
C2_InsertOnlyWhileLive ==
  [][\A k \in (Len(bids) + 1)..Len(bids') :
       /\ auctions[bids'[k].auction_id].status = "live"
       /\ now <= auctions[bids'[k].auction_id].end_time]_vars

\* C3: an auction is created scheduled and its status changes only along
\* scheduled -> live, live -> closed or scheduled -> closed.
C3_StatusForwardOnly ==
  [][/\ \A a \in AuctionIds :
          auctions'[a].status # auctions[a].status =>
            <<auctions[a].status, auctions'[a].status>> \in
              {<<"scheduled", "live">>, <<"live", "closed">>, <<"scheduled", "closed">>}
     /\ \A a \in (1..Len(auctions')) \ AuctionIds : auctions'[a].status = "scheduled"]_vars

\* C4: no step changes the end_time or the start_time of an auction whose
\* status is live.
C4_LiveTimesFrozen ==
  [][\A a \in AuctionIds :
       auctions[a].status = "live" =>
         /\ auctions'[a].end_time = auctions[a].end_time
         /\ auctions'[a].start_time = auctions[a].start_time]_vars

\* C5: when min_decrement X > 0, every bid a submission accepts has a gap
\* (reference - amount) that is a positive multiple of X, the reference being
\* the lowest bid read or, for a first bid, the item's base_price.
C5_AcceptedGapMultiple ==
  last.min_dec > 0 =>
    \A k \in 1..Len(last.inserted) :
      LET gap == Reference(last.low_map, last.inserted[k].item_id) - last.inserted[k].bid_amount
      IN gap > 0 /\ gap % last.min_dec = 0

\* C6: a selected entry whose amount is >= the reference read for its item
\* (lowest bid, else base_price) is reported as not lower and no bid for the
\* item is inserted; equality is rejected against base_price and against the
\* lowest bid alike.
C6_NotLowerRejected ==
  \A iid \in DOMAIN last.edits :
    (/\ last.edits[iid].select
     /\ last.edits[iid].your_bid # None
     /\ last.edits[iid].your_bid >= Reference(last.low_map, iid))
    => /\ IF iid \in DOMAIN last.low_map
          THEN HasErrorFor(iid, "NotLowerThanLowest")
          ELSE HasErrorFor(iid, "NotLowerThanBase")
       /\ ~Queued(iid)
       /\ ~InsertedFor(iid)

\* C6 witness: an entry equal to the lowest bid read for its item was submitted
C6_Witness ==
  \E iid \in DOMAIN last.edits :
    /\ last.edits[iid].select
    /\ iid \in DOMAIN last.low_map
    /\ last.edits[iid].your_bid = last.low_map[iid]
    /\ HasErrorFor(iid, "NotLowerThanLowest")

C8_SkippedSilently ==
  \A iid \in DOMAIN last.edits :
    (~last.edits[iid].select \/ last.edits[iid].your_bid = None) => ~HasError(iid)

\* C8 amended: an entry that is not selected produces no error and no row and
\* the selected entries alone decide the outcome; an entry that is selected
\* without an amount is reported and the batch inserts nothing.
C8_UnselectedSkipped ==
  /\ \A iid \in DOMAIN last.edits :
       /\ ~last.edits[iid].select => (~HasError(iid) /\ ~Queued(iid))
       /\ (last.edits[iid].select /\ last.edits[iid].your_bid = None) =>
            (HasErrorFor(iid, "NoBidEntered") /\ last.inserted = <<>>)
  /\ Len(last.errors) + Len(last.to_submit) = Cardinality(SelectedIds(last.edits))

\* C8 witness: a batch with an empty unselected row next to an inserted entry
C8_Witness ==
  \E i \in DOMAIN last.edits, j \in DOMAIN last.edits :
    /\ ~last.edits[i].select
    /\ last.edits[i].your_bid = None
    /\ last.edits[j].select
    /\ InsertedFor(j)

\* C9: no step adds an item to an auction whose status is live or closed.
C9_ItemsOnlyWhileScheduled ==
  [][\A a \in AuctionIds :
       auctions[a].status # "scheduled" =>
         ItemsIn(auction_items', a) = ItemsIn(auction_items, a)]_vars

\* The rows a batch without errors stores: one per selected entry, in item
\* order, with the auction, item, bidder and amount of the submission.
RECURSIVE RowsOf(_, _)
RowsOf(ids, sub) ==
  IF ids = <<>> THEN <<>>
  ELSE <<[auction_id |-> sub.sel, item_id |-> Head(ids), bidder_id |-> sub.bidder,
          bid_amount |-> sub.edits[Head(ids)].your_bid]>> \o RowsOf(Tail(ids), sub)

C11_ReadsSweepExpired ==
  [][(\E s \in Suppliers : pc'[s] # pc[s] /\ pc'[s] \in {"page", "validate"}) =>
       \A a \in AuctionIds :
         ~(auctions'[a].status = "live" /\ auctions'[a].end_time <= now')]_vars

\* C12: Close Auction is possible in every status and a step that leaves an
\* auction closed changes nothing of it but the status: closing once keeps
\* start_time, end_time and min_decrement, closing a closed auction keeps all.
C12_CloseIdempotent ==
  /\ [](\A a \in AuctionIds : ENABLED CloseAuction(a))
  /\ [][\A a \in AuctionIds :
          auctions'[a].status = "closed" =>
            auctions'[a] = [auctions[a] EXCEPT !.status = "closed"]]_vars

\* C12 witness: an auction closed by the buyer before its end_time
C12_Witness ==
  \E a \in AuctionIds : auctions[a].status = "closed" /\ auctions[a].end_time > now

\* C16: bids are append-only: every step keeps every stored bid, with the same
\* auction, item, bidder and amount, at its place in the table.
C16_BidsAppendOnly ==
  [][/\ Len(bids') >= Len(bids)
     /\ \A k \in 1..Len(bids) : bids'[k] = bids[k]]_vars

\* C16 witness: an auction that holds two bids has been closed
C16_Witness ==
  /\ Len(bids) > 1
  /\ \A k \in 1..Len(bids) : auctions[bids[k].auction_id].status = "closed"

\* C20: every auction has start_time < end_time.
C20_StartBeforeEnd ==
  \A a \in AuctionIds : auctions[a].start_time < auctions[a].end_time

\* C20 witness: an auction started after its creation and then closed
C20_Witness ==
  \E a \in AuctionIds : auctions[a].status = "closed" /\ auctions[a].start_time > 0

\* C13: with min_decrement = 0, a submission of a single bid whose amount is
\* strictly lower than the item's reference (lowest bid read, else base_price)
\* is accepted and stored, amount 0 included.
C13_LowerBidAccepted ==
  last.min_dec = 0 =>
    \A iid \in DOMAIN last.edits :
      (/\ SelectedIds(last.edits) = {iid}
       /\ last.edits[iid].your_bid # None
       /\ last.edits[iid].your_bid < Reference(last.low_map, iid))
      => /\ last.errors = <<>>
         /\ last.inserted = <<[auction_id |-> last.sel, item_id |-> iid,
                               bidder_id |-> last.bidder,
                               bid_amount |-> last.edits[iid].your_bid]>>
         /\ Len(bids) >= 1
         /\ bids[Len(bids)] = last.inserted[1]

\* C13 witness: a bid of 0 was stored for a live, unexpired auction without
\* a decrement step
C13_Witness ==
  /\ last.bidder # 0
  /\ last.min_dec = 0
  /\ Len(last.inserted) = 1
  /\ last.inserted[1].bid_amount = 0
  /\ auctions[last.sel].status = "live"
  /\ auctions[last.sel].end_time > now

\* C15: the lowest bid read at submit is, for every listed item, the minimum
\* bid_amount over all bids stored for the item at the time of the read, and
\* there is none (the reference is the base_price) exactly when the item has
\* no bid; the value read is the one the validation then uses.
C15_ReferenceIsMinimum ==
  [][\A s \in Suppliers :
       /\ (pc[s] = "page" /\ pc'[s] = "validate") =>
            \A iid \in shown[s] :
              LET amounts == {bids[k].bid_amount :
                                k \in {j \in 1..Len(bids) : bids[j].item_id = iid}}
              IN IF amounts = {}
                 THEN /\ iid \notin DOMAIN low_map'[s]
                      /\ Reference(low_map'[s], iid) = auction_items[iid].base_price
                 ELSE /\ iid \in DOMAIN low_map'[s]
                      /\ Reference(low_map'[s], iid) \in amounts
                      /\ \A x \in amounts : Reference(low_map'[s], iid) <= x
       /\ (pc[s] = "validate" /\ pc'[s] = "validate") => low_map'[s] = low_map[s]]_vars

\* C15 witness: the lowest of two different bids on an item was read
C15_Witness ==
  \E s \in Suppliers :
    /\ pc[s] = "validate"
    /\ \E iid \in DOMAIN low_map[s] :
         \E j \in 1..Len(bids), k \in 1..Len(bids) :
           /\ bids[j].item_id = iid /\ bids[k].item_id = iid
           /\ bids[j].bid_amount < bids[k].bid_amount
           /\ low_map[s][iid] = bids[j].bid_amount

\* C14: for every step X > 0 and every gap g, is_multiple_of(X, g) is true if
\* and only if g > 0 and g is an integer multiple of X.
C14_MultipleOfStep ==
  (rule.called /\ rule.step > 0) =>
    (rule.result <=> (rule.diff > 0 /\ \E k \in 1..MaxGap : rule.diff = k * rule.step))

\* C14 witness: a gap of several steps was found to be a multiple
C14_Witness ==
  /\ rule.called
  /\ rule.step > 1
  /\ rule.diff > rule.step
  /\ rule.result

\* C18: is_multiple_of(step, gap) is false whenever gap <= 0, whatever the
\* step; for step = 0 it is true exactly when gap > 0.
C18_NonPositiveGapRejected ==
  rule.called =>
    /\ rule.diff <= 0 => ~rule.result
    /\ rule.step = 0 => (rule.result <=> rule.diff > 0)

\* C17: a batch is validated against the lowest bids read after Submit was
\* pressed, not against the lowest_bid column of the rendered page: the read
\* at submit returns the bids committed by then, and every row the submission
\* stores is lower than the reference so read.
C17_ValidatedAgainstFreshRead ==
  [][\A s \in Suppliers :
       /\ (pc[s] = "page" /\ pc'[s] = "validate") =>
            \A iid \in shown[s] :
              \A k \in 1..Len(bids) :
                bids[k].item_id = iid =>
                  (iid \in DOMAIN low_map'[s] /\ low_map'[s][iid] <= bids[k].bid_amount)
       /\ (pc[s] = "validate" /\ pc'[s] = "idle") =>
            \A k \in (Len(bids) + 1)..Len(bids') :
              bids'[k].bid_amount < Reference(low_map[s], bids'[k].item_id)]_vars

\* C17 witness: the lowest bid read at submit differs from the one on the page
C17_Witness ==
  \E s \in Suppliers :
    /\ pc[s] = "validate"
    /\ \E iid \in shown[s] : CurrentLowest(low_map[s], iid) # CurrentLowest(page_low[s], iid)

C21_OneBidPerItem ==
  [][bids' # bids =>
       /\ Len(bids') > Len(bids)
       /\ SubSeq(bids', 1, Len(bids)) = bids
       /\ \E s \in Suppliers :
            /\ pc[s] = "validate" /\ pc'[s] = "idle"
            /\ \A i \in (Len(bids) + 1)..Len(bids') :
                 /\ bids'[i].auction_id = sel[s]
                 /\ bids'[i].bidder_id = s
                 /\ bids'[i].item_id \in shown[s]
                 /\ \A j \in (Len(bids) + 1)..Len(bids') :
                      bids'[i].item_id = bids'[j].item_id => i = j]_vars

\* C21 witness: the last supplier has stored a bid on each of two items of
\* one auction while the first supplier has none
C21_Witness ==
  /\ Len(bids) = 2
  /\ bids[1].bidder_id = NumSuppliers /\ bids[2].bidder_id = NumSuppliers
  /\ bids[1].auction_id = bids[2].auction_id
  /\ bids[1].item_id # bids[2].item_id

====
